---------------------------- MODULE Spec2Model ----------------------------
(***************************************************************************)
(* Korean Keyboard Password Generator (src/app.py).                        *)
(*                                                                         *)
(* A Python str is modelled as a sequence of Unicode code points, so that  *)
(* trimming, decomposition, table lookup and upper-casing are computed on  *)
(* the characters as the program computes them.                            *)
(*                                                                         *)
(* hgtk (Hangul toolkit) and googletrans are libraries the program calls.  *)
(* hgtk.checker.is_hangul and hgtk.letter.decompose are modelled by what   *)
(* the library does at the two call sites (app.py lines 79 and 81); the    *)
(* googletrans call is the environment: each call either raises or returns *)
(* a text, chosen nondeterministically.                                    *)
(***************************************************************************)
EXTENDS Integers, Sequences, FiniteSets, TLC

VARIABLES
    req,          \* request id -> the handler's frame (locals, position, log)
    jamo_table,   \* the module-level dict JAMO_TO_KEYBOARD
    translator,   \* the module-level googletrans handle
    replies,      \* the texts the external service may answer with
    call          \* a direct call of one of the pure functions

vars == <<req, jamo_table, translator, replies, call>>

---------------------------------------------------------------------------
(* Bounds of the model *)

\* Longest input string of a direct call of a pure function.
MaxLen == 3

\* Number of requests in flight in the concurrent specification.
NumRequests == 2

---------------------------------------------------------------------------
(* Characters *)

Range(s) == {s[i] : i \in 1..Len(s)}

RECURSIVE Repeat(_, _)
Repeat(c, n) == IF n = 0 THEN <<>> ELSE <<c>> \o Repeat(c, n - 1)

\* The value of a local that has not been assigned yet.
None == << -1 >>

\* str.isspace() / the characters str.strip() removes, for code points
\* below U+3100.
IsWhitespace(c) ==
    \/ 9 <= c /\ c <= 13
    \/ 28 <= c /\ c <= 32
    \/ c \in {133, 160, 5760}
    \/ 8192 <= c /\ c <= 8202
    \/ c \in {8232, 8233, 8239, 8287, 12288}

\* str.isalpha() on the code points the model uses: ASCII and Latin-1 letters,
\* Hangul compatibility jamo and composed Hangul syllables.
IsAlpha(c) ==
    \/ 65 <= c /\ c <= 90
    \/ 97 <= c /\ c <= 122
    \/ c \in {170, 181, 186}
    \/ 192 <= c /\ c <= 255 /\ c \notin {215, 247}
    \/ 12593 <= c /\ c <= 12686
    \/ 44032 <= c /\ c <= 55203

\* str.upper() of one character, on the same code points.  The result is a
\* string: the upper case of U+00DF is the two characters "SS".
upper(c) ==
    IF 97 <= c /\ c <= 122 THEN <<c - 32>>
    ELSE IF c = 223 THEN <<83, 83>>
    ELSE IF c = 181 THEN <<924>>
    ELSE IF c = 255 THEN <<376>>
    ELSE IF 224 <= c /\ c <= 254 /\ c # 247 THEN <<c - 32>>
    ELSE <<c>>

\* str.strip(): drop leading and trailing whitespace.
RECURSIVE lstrip(_)
lstrip(s) ==
    IF s # <<>> /\ IsWhitespace(Head(s)) THEN lstrip(Tail(s)) ELSE s

RECURSIVE rstrip(_)
rstrip(s) ==
    IF s # <<>> /\ IsWhitespace(s[Len(s)])
    THEN rstrip(SubSeq(s, 1, Len(s) - 1)) ELSE s

strip(s) == rstrip(lstrip(s))

\* str.replace(" ", ""): drop every U+0020.
replace_space(s) == SelectSeq(s, LAMBDA c : c # 32)

---------------------------------------------------------------------------
(* Keyboard mapping *)

JAMO_TO_KEYBOARD ==
    12593 :> <<114>> @@ 12594 :> <<82>> @@ 12596 :> <<115>> @@
    12599 :> <<101>> @@ 12600 :> <<69>> @@ 12601 :> <<102>> @@
    12609 :> <<97>> @@ 12610 :> <<113>> @@ 12611 :> <<81>> @@
    12613 :> <<116>> @@ 12614 :> <<84>> @@ 12615 :> <<100>> @@
    12616 :> <<119>> @@ 12617 :> <<87>> @@ 12618 :> <<99>> @@
    12619 :> <<122>> @@ 12620 :> <<120>> @@ 12621 :> <<118>> @@
    12622 :> <<103>> @@
    12623 :> <<107>> @@ 12624 :> <<111>> @@ 12625 :> <<105>> @@
    12626 :> <<79>> @@ 12627 :> <<106>> @@ 12628 :> <<112>> @@
    12629 :> <<117>> @@
    12630 :> <<80>> @@ 12631 :> <<104>> @@ 12632 :> <<104, 107>> @@
    12633 :> <<104, 111>> @@ 12634 :> <<104, 108>> @@ 12635 :> <<121>> @@
    12636 :> <<110>> @@ 12637 :> <<110, 106>> @@ 12638 :> <<110, 112>> @@
    12639 :> <<110, 108>> @@ 12640 :> <<98>> @@ 12641 :> <<109>> @@
    12642 :> <<109, 108>> @@ 12643 :> <<108>>

\* dict.get(key, key) on a table keyed by one-character strings.
get(tbl, key) ==
    IF Len(key) = 1 /\ key[1] \in DOMAIN tbl THEN tbl[key[1]] ELSE key

---------------------------------------------------------------------------
(* hgtk: Hangul classification and decomposition *)

FIRST_HANGUL_UNICODE == 44032

LAST_HANGUL_UNICODE == 55203

NUM_CHO == 19

NUM_JOONG == 21

NUM_JONG == 28

\* Initial consonants, medial vowels and final consonants (compatibility
\* jamo); entry 0 of JONG stands for the empty string, "no final".
CHO ==
    <<12593, 12594, 12596, 12599, 12600, 12601, 12609, 12610, 12611, 12613,
      12614, 12615, 12616, 12617, 12618, 12619, 12620, 12621, 12622>>

JOONG ==
    <<12623, 12624, 12625, 12626, 12627, 12628, 12629, 12630, 12631, 12632,
      12633, 12634, 12635, 12636, 12637, 12638, 12639, 12640, 12641, 12642,
      12643>>

JONG ==
    <<0, 12593, 12594, 12595, 12596, 12597, 12598, 12599, 12601, 12602,
      12603, 12604, 12605, 12606, 12607, 12608, 12609, 12610, 12612, 12613,
      12614, 12615, 12616, 12618, 12619, 12620, 12621, 12622>>

Str(c) == IF c = 0 THEN <<>> ELSE <<c>>

\* hgtk.checker.is_jamo: a standalone jamo of CHO + JOONG + JONG[1:].
is_jamo(ch) == ch \in (Range(CHO) \cup Range(JOONG) \cup Range(JONG)) \ {0}

\* hgtk.checker.is_hangul on one character: a composed syllable or a jamo.
is_hangul(ch) ==
    (FIRST_HANGUL_UNICODE <= ch /\ ch <= LAST_HANGUL_UNICODE) \/ is_jamo(ch)

decompose_index_medial_mod_cho(code) ==
    LET jong  == code % NUM_JONG
        joong == (code \div NUM_JONG) % NUM_CHO
        cho   == (code \div NUM_JONG) \div NUM_JOONG
    IN  <<cho, joong, jong>>

\* hgtk.letter.decompose_index: (cho, joong, jong) of a syllable offset.
decompose_index(code) ==
    LET jong  == code % NUM_JONG
        joong == (code \div NUM_JONG) % NUM_JOONG
        cho   == (code \div NUM_JONG) \div NUM_JOONG
    IN  <<cho, joong, jong>>

\* hgtk.letter.decompose on one character for which is_hangul holds: a jamo
\* is returned in its own slot, a syllable is split by its index.
decompose(ch) ==
    IF ch \in Range(CHO) THEN << <<ch>>, <<>>, <<>> >>
    ELSE IF ch \in Range(JOONG) THEN << <<>>, <<ch>>, <<>> >>
    ELSE IF ch \in Range(JONG) THEN << <<>>, <<>>, <<ch>> >>
    ELSE LET idx == decompose_index(ch - FIRST_HANGUL_UNICODE)
             cho == IF idx[1] < 0 THEN 0 ELSE idx[1]
         IN  <<Str(CHO[cho + 1]), Str(JOONG[idx[2] + 1]), Str(JONG[idx[3] + 1])>>

---------------------------------------------------------------------------
(* Hangul syllables -> US keyboard typing *)

\* The body of the loop of korean_to_keyboard_typing: what one character
\* appends to out.
typed_char(tbl, ch) ==
    IF is_hangul(ch)
    THEN LET d == decompose(ch)
         IN  get(tbl, d[1]) \o get(tbl, d[2])
             \o (IF d[3] # <<>> THEN get(tbl, d[3]) ELSE <<>>)
    ELSE <<ch>>

\* The loop over the characters of hangul_text, from the i-th on.
RECURSIVE typing_from(_, _, _)
typing_from(tbl, hangul_text, i) ==
    IF i > Len(hangul_text) THEN <<>>
    ELSE typed_char(tbl, hangul_text[i]) \o typing_from(tbl, hangul_text, i + 1)

korean_to_keyboard_typing(tbl, hangul_text) == typing_from(tbl, hangul_text, 1)

---------------------------------------------------------------------------
(* Random capitalisation *)

\* idxs = [i for i, c in enumerate(password) if c.isalpha()], 1-based.
idxs(password) == {i \in 1..Len(password) : IsAlpha(password[i])}

\* password[:i] + password[i].upper() + password[i+1:]
capitalize_at(password, i) ==
    SubSeq(password, 1, i - 1) \o upper(password[i])
    \o SubSeq(password, i + 1, Len(password))

---------------------------------------------------------------------------
(* Direct calls of the pure functions *)

\* The characters of the inputs: "a", "A", "1", "!", " ", U+00DF, the jamo
\* U+3131 and U+3133, and the syllables U+C9D1, U+ACFC and U+B2ED.
Alphabet == {97, 65, 49, 33, 32, 223, 12593, 12595, 51665, 44284, 45805}

RECURSIVE StringsUpTo(_)
StringsUpTo(n) ==
    IF n = 0 THEN {<<>>}
    ELSE LET shorter == StringsUpTo(n - 1)
         IN  shorter \cup {<<c>> \o s : c \in Alphabet,
                                        s \in {t \in shorter : Len(t) = n - 1}}

SyllableBlock == FIRST_HANGUL_UNICODE..LAST_HANGUL_UNICODE

NoCall == [fn |-> "none", arg |-> <<>>, ret |-> None, dec |-> <<>>,
           done |-> FALSE]

NoReq == <<>>

PureInit ==
    /\ req = NoReq
    /\ jamo_table = JAMO_TO_KEYBOARD
    /\ translator = "Translator"
    /\ replies = {}
    /\ \/ \E s \in StringsUpTo(MaxLen) :
             call = [NoCall EXCEPT !.fn = "korean_to_keyboard_typing",
                                   !.arg = s]
       \/ \E c \in SyllableBlock \cup {12593, 12595, 12623} :
             \E f \in {"korean_to_keyboard_typing", "decompose"} :
                call = [NoCall EXCEPT !.fn = f, !.arg = <<c>>]

CallTyping ==
    /\ call.fn = "korean_to_keyboard_typing" /\ ~call.done
    /\ call' = [call EXCEPT
                  !.ret = korean_to_keyboard_typing(jamo_table, call.arg),
                  !.done = TRUE]
    /\ UNCHANGED <<req, jamo_table, translator, replies>>

CallDecompose ==
    /\ call.fn = "decompose" /\ ~call.done
    /\ is_hangul(call.arg[1])
    /\ call' = [call EXCEPT !.dec = decompose(call.arg[1]), !.done = TRUE]
    /\ UNCHANGED <<req, jamo_table, translator, replies>>

PureNext == CallTyping \/ CallDecompose

PureSpec == PureInit /\ [][PureNext]_vars

---------------------------------------------------------------------------
(* Translator (with retries) *)

retries_plus_one == 3 + 1

\* The default of the parameter retries of translate_to_korean.
retries == 3

text_even_if_empty(text, word) == text

\* res.text or word
text_or_word(text, word) == IF text # <<>> THEN text ELSE word

fallback_raises(word) == [raised |-> TRUE, value |-> word]

\* The statement after the loop: return word.
fallback(word) == [raised |-> FALSE, value |-> word]

\* What one call of translator.translate may do: raise, or answer a text.
Outcomes ==
    {[raised |-> TRUE, text |-> <<>>]}
    \cup {[raised |-> FALSE, text |-> t] : t \in replies}

Event(ev, k, o) == [ev |-> ev, k |-> k, raised |-> o.raised, text |-> o.text]

NoOutcome == [raised |-> FALSE, text |-> <<>>]

---------------------------------------------------------------------------
(* Main endpoint: POST /generate *)

frame_of_first_request(r) == req[1]

\* The local variables of the handler that serves request r.
frame(r) == req[r]

missing_symbol_unchecked(word1, word2, symbol) ==
    word1 = <<>> \/ word2 = <<>>

\* not word1 or not word2 or not symbol
missing(word1, word2, symbol) ==
    word1 = <<>> \/ word2 = <<>> \/ symbol = <<>>

\* len(word1) > 50 or len(word2) > 50 or len(symbol) > 5
too_long(word1, word2, symbol) ==
    Len(word1) > 50 \/ Len(word2) > 50 \/ Len(symbol) > 5

NewFrame(entry, pc, data) ==
    [entry |-> entry, pc |-> pc, data |-> data,
     word1 |-> None, word2 |-> None, symbol |-> None,
     tr |-> [word |-> None, attempt |-> 0, sleeping |-> FALSE],
     korean_word1 |-> None, korean_word2 |-> None,
     keyboard_word1 |-> None, keyboard_word2 |-> None,
     raw_password |-> None, final_password |-> None,
     choice |-> 0, status |-> 0, response |-> [detail |-> None],
     log |-> <<>>]

NewCall(word) == [word |-> word, attempt |-> 0, sleeping |-> FALSE]

\* Lines 107-115: trim the three fields, then the two input guards.
Validate(r) ==
    /\ req[r].pc = "validate"
    /\ LET word1  == strip(req[r].data.word1)
           word2  == strip(req[r].data.word2)
           symbol == strip(req[r].data.symbol)
           f      == [req[r] EXCEPT !.word1 = word1, !.word2 = word2,
                                    !.symbol = symbol]
       IN  req' = [req EXCEPT ![r] =
              IF missing(word1, word2, symbol)
              THEN [f EXCEPT !.pc = "done", !.status = 400,
                             !.response = [detail |-> <<1>>]]
              ELSE IF too_long(word1, word2, symbol)
              THEN [f EXCEPT !.pc = "done", !.status = 400,
                             !.response = [detail |-> <<2>>]]
              ELSE [f EXCEPT !.pc = "translate1", !.tr = NewCall(word1)]]
    /\ UNCHANGED <<jamo_table, translator, replies, call>>

\* translate_to_korean returns (or raises) to its caller: generate at line
\* 118 or 119, or a direct call.  An exception leaving the handler becomes
\* a server error.
Return(f, result) ==
    IF result.raised
    THEN [f EXCEPT !.pc = "done", !.status = 500,
                   !.response = [detail |-> <<3>>]]
    ELSE IF f.pc = "translate1"
    THEN IF f.entry = "generate"
         THEN [f EXCEPT !.korean_word1 = result.value, !.pc = "translate2",
                        !.tr = NewCall(f.word2)]
         ELSE [f EXCEPT !.korean_word1 = result.value, !.pc = "done"]
    ELSE [f EXCEPT !.korean_word2 = result.value, !.pc = "typing"]

InTranslate(r) == req[r].pc \in {"translate1", "translate2"}

WordNo(r) == IF req[r].pc = "translate1" THEN 1 ELSE 2

\* One iteration of the loop, lines 62-69: the empty word returns at once;
\* otherwise the external call either answers (return res.text or word) or
\* raises (the except clause is entered).
TranslateAttempt(r) ==
    /\ InTranslate(r)
    /\ ~req[r].tr.sleeping
    /\ req[r].tr.attempt < retries
    /\ LET word == req[r].tr.word
       IN  IF word = <<>>
           THEN req' = [req EXCEPT ![r] =
                          Return(req[r], [raised |-> FALSE, value |-> word])]
           ELSE \E o \in Outcomes :
                  LET f == [req[r] EXCEPT
                              !.log = Append(@, Event("call", WordNo(r), o))]
                  IN  req' = [req EXCEPT ![r] =
                         IF o.raised
                         THEN [f EXCEPT !.tr.sleeping = TRUE]
                         ELSE Return(f, [raised |-> FALSE,
                                         value |-> text_or_word(o.text, word)])]
    /\ UNCHANGED <<jamo_table, translator, replies, call>>

\* Line 70: time.sleep(delay_sec), then the next iteration.
TranslateSleep(r) ==
    /\ InTranslate(r)
    /\ req[r].tr.sleeping
    /\ req' = [req EXCEPT
                 ![r].log = Append(@, Event("sleep", WordNo(r), NoOutcome)),
                 ![r].tr.sleeping = FALSE,
                 ![r].tr.attempt = @ + 1]
    /\ UNCHANGED <<jamo_table, translator, replies, call>>

\* Line 72: the loop is exhausted.
TranslateFallback(r) ==
    /\ InTranslate(r)
    /\ ~req[r].tr.sleeping
    /\ req[r].tr.attempt >= retries
    /\ req' = [req EXCEPT ![r] = Return(req[r], fallback(req[r].tr.word))]
    /\ UNCHANGED <<jamo_table, translator, replies, call>>

\* Lines 122-123: convert to US keyboard typing and strip spaces.
Typing(r) ==
    /\ req[r].pc = "typing"
    /\ req' = [req EXCEPT
         ![r].keyboard_word1 = replace_space(
              korean_to_keyboard_typing(jamo_table, frame(r).korean_word1)),
         ![r].keyboard_word2 = replace_space(
              korean_to_keyboard_typing(jamo_table, frame(r).korean_word2)),
         ![r].log = Append(@, Event("typing", 0, NoOutcome)),
         ![r].pc = "build"]
    /\ UNCHANGED <<jamo_table, translator, replies, call>>

raw_password_symbol_last(keyboard_word1, symbol, keyboard_word2) ==
    keyboard_word1 \o keyboard_word2 \o symbol

\* f"{keyboard_word1}{symbol}{keyboard_word2}"
raw_password_of(keyboard_word1, symbol, keyboard_word2) ==
    keyboard_word1 \o symbol \o keyboard_word2

\* Lines 126-127: build the password and capitalise one letter of it.
Build(r) ==
    /\ req[r].pc = "build"
    /\ LET raw == raw_password_of(frame(r).keyboard_word1, frame(r).symbol,
                                  frame(r).keyboard_word2)
           f   == [req[r] EXCEPT !.raw_password = raw, !.pc = "respond",
                      !.log = Append(@, Event("build", 0, NoOutcome))]
       IN  IF idxs(raw) = {}
           THEN req' = [req EXCEPT ![r] = [f EXCEPT !.final_password = raw]]
           ELSE \E i \in idxs(raw) :
                  req' = [req EXCEPT ![r] =
                     [f EXCEPT !.final_password = capitalize_at(raw, i),
                               !.choice = i]]
    /\ UNCHANGED <<jamo_table, translator, replies, call>>

\* Lines 129-136: the response.
Respond(r) ==
    /\ req[r].pc = "respond"
    /\ req' = [req EXCEPT
         ![r].response = [korean_word1   |-> frame(r).korean_word1,
                          korean_word2   |-> frame(r).korean_word2,
                          keyboard_word1 |-> frame(r).keyboard_word1,
                          keyboard_word2 |-> frame(r).keyboard_word2,
                          raw_password   |-> frame(r).raw_password,
                          final_password |-> frame(r).final_password],
         ![r].status = 200,
         ![r].log = Append(@, Event("respond", 0, NoOutcome)),
         ![r].pc = "done"]
    /\ UNCHANGED <<jamo_table, translator, replies, call>>

---------------------------------------------------------------------------
(* One request, every kind of input *)

Long50 == Repeat(49, 50)

\* "", " ", " a\t", U+00DF, fifty digits between two spaces, fifty-one digits
Words == {<<>>, <<32>>, <<32, 97, 9>>, <<223>>,
          <<32>> \o Long50 \o <<32>>, Long50 \o <<49>>}

\* "", " ", " ! ", "!!!!!", "!!!!!!"
Symbols == {<<>>, <<32>>, <<32, 33, 32>>, Repeat(33, 5), Repeat(33, 6)}

\* "", U+C9D1, U+B2ED " " U+ACFC
Texts == {<<>>, <<51665>>, <<45805, 32, 44284>>}

Init ==
    /\ \E word1 \in Words, symbol \in Symbols, word2 \in Words :
          req = <<NewFrame("generate", "validate",
                    [word1 |-> word1, symbol |-> symbol, word2 |-> word2])>>
    /\ jamo_table = JAMO_TO_KEYBOARD
    /\ translator = "Translator"
    /\ replies = Texts
    /\ call = NoCall

Next ==
    \/ \E r \in DOMAIN req : Validate(r)
    \/ \E r \in DOMAIN req : TranslateAttempt(r)
    \/ \E r \in DOMAIN req : TranslateSleep(r)
    \/ \E r \in DOMAIN req : TranslateFallback(r)
    \/ \E r \in DOMAIN req : Typing(r)
    \/ \E r \in DOMAIN req : Build(r)
    \/ \E r \in DOMAIN req : Respond(r)

Spec == Init /\ [][Next]_vars

\* The handler runs to completion: each step is straight-line code and each
\* external call returns or raises.
LiveSpec == Init /\ [][Next]_vars /\ WF_vars(Next)

---------------------------------------------------------------------------
(* translate_to_korean called directly *)

\* "" and the one- and two-character words over "a", " " and U+00DF
TransWords ==
    {<<>>} \cup {<<a>> : a \in {97, 32, 223}}
           \cup {<<a, b>> : a \in {97, 32, 223}, b \in {97, 32, 223}}

TransInit ==
    /\ \E word \in TransWords :
          req = <<[NewFrame("translate_to_korean", "translate1",
                      [word1 |-> word, symbol |-> <<>>, word2 |-> <<>>])
                   EXCEPT !.tr = NewCall(word)]>>
    /\ jamo_table = JAMO_TO_KEYBOARD
    /\ translator = "Translator"
    /\ replies = Texts
    /\ call = NoCall

TransNext ==
    \/ \E r \in DOMAIN req : TranslateAttempt(r)
    \/ \E r \in DOMAIN req : TranslateSleep(r)
    \/ \E r \in DOMAIN req : TranslateFallback(r)

TransSpec == TransInit /\ [][TransNext]_vars

---------------------------------------------------------------------------
(* Several requests in flight *)

\* Request r sends the r-th lower-case letter, "!" and "1"; the service
\* answers "2" or raises.
ConcInit ==
    /\ req = [r \in 1..NumRequests |->
                NewFrame("generate", "validate",
                   [word1 |-> <<96 + r>>, symbol |-> <<33>>, word2 |-> <<49>>])]
    /\ jamo_table = JAMO_TO_KEYBOARD
    /\ translator = "Translator"
    /\ replies = {<<50>>}
    /\ call = NoCall

ConcSpec == ConcInit /\ [][Next]_vars

---------------------------------------------------------------------------
(* What the claims speak of *)

\* s without its surrounding whitespace.
Trimmed(s) ==
    LET keep == {i \in 1..Len(s) : ~IsWhitespace(s[i])}
    IN  IF keep = {} THEN <<>>
        ELSE SubSeq(s, CHOOSE i \in keep : \A j \in keep : i <= j,
                       CHOOSE i \in keep : \A j \in keep : j <= i)

\* A request body the handler must reject.
Invalid(data) ==
    \/ Trimmed(data.word1) = <<>>
    \/ Trimmed(data.word2) = <<>>
    \/ Trimmed(data.symbol) = <<>>
    \/ Len(Trimmed(data.word1)) > 50
    \/ Len(Trimmed(data.word2)) > 50
    \/ Len(Trimmed(data.symbol)) > 5

\* The external calls made for word k, and the delays after them.
CallsOf(f, k) == SelectSeq(f.log, LAMBDA e : e.ev = "call" /\ e.k = k)

SleepsOf(f, k) == SelectSeq(f.log, LAMBDA e : e.ev = "sleep" /\ e.k = k)

AllFailed(f, k) ==
    /\ Len(CallsOf(f, k)) = 3
    /\ \A i \in 1..3 : CallsOf(f, k)[i].raised

ResponseFields ==
    {"korean_word1", "korean_word2", "keyboard_word1", "keyboard_word2",
     "raw_password", "final_password"}

RECURSIVE WithoutSpaces(_)
WithoutSpaces(s) ==
    IF s = <<>> THEN <<>>
    ELSE IF Head(s) = 32 THEN WithoutSpaces(Tail(s))
    ELSE <<Head(s)>> \o WithoutSpaces(Tail(s))

IsLatinLetter(c) == (65 <= c /\ c <= 90) \/ (97 <= c /\ c <= 122)

---------------------------------------------------------------------------
\* C1: a request whose word1, word2 or symbol is empty after trimming, or
\* whose trimmed word is longer than 50 or trimmed symbol longer than 5
\* characters, ends with HTTP 400; the translator is never called for it
\* and no raw or final password is produced.
C1_InvalidRejected ==
    \A r \in DOMAIN req :
        (req[r].entry = "generate" /\ Invalid(req[r].data)) =>
            /\ req[r].pc \in {"validate", "done"}
            /\ \A i \in 1..Len(req[r].log) : req[r].log[i].ev # "call"
            /\ req[r].raw_password = None
            /\ req[r].final_password = None
            /\ req[r].pc = "done" =>
                  /\ req[r].status = 400
                  /\ DOMAIN req[r].response = {"detail"}

\* A symbol of six characters was rejected.
C1_Witness ==
    /\ req # NoReq
    /\ req[1].pc = "done" /\ req[1].status = 400
    /\ Len(Trimmed(req[1].data.symbol)) = 6
    /\ Len(Trimmed(req[1].data.word1)) = 1
    /\ Len(Trimmed(req[1].data.word2)) = 50

\* C2: the final password has the length of the raw password, differs from it
\* in at most one position, that position holds a letter of the raw
\* password, and a raw password without letters is returned unchanged.
C2_OneLetterChanged ==
    \A r \in DOMAIN req :
        req[r].status = 200 =>
            LET raw == req[r].response.raw_password
                fin == req[r].response.final_password
            IN  /\ Len(fin) = Len(raw)
                /\ Cardinality({i \in 1..Len(raw) : fin[i] # raw[i]}) <= 1
                /\ \A i \in 1..Len(raw) : fin[i] # raw[i] => IsAlpha(raw[i])
                /\ idxs(raw) = {} => fin = raw

\* C3: translate_to_korean never raises and calls the translator at most 3
\* times; the empty word is returned without a call; otherwise the result
\* is the text of the first attempt that does not fail (no attempt follows
\* it) when that text is non-empty, and the word itself when that text is
\* empty or when all 3 attempts failed.
C3_TranslateContract ==
    \A r \in DOMAIN req :
        LET f     == req[r]
            calls == CallsOf(f, 1)
            word  == f.data.word1
        IN  f.entry = "translate_to_korean" =>
              /\ f.status # 500
              /\ Len(calls) <= 3
              /\ \A i \in 1..(Len(calls) - 1) : calls[i].raised
              /\ f.pc = "done" =>
                   /\ word = <<>> =>
                         f.korean_word1 = <<>> /\ Len(calls) = 0
                   /\ word # <<>> =>
                         /\ Len(calls) >= 1
                         /\ IF ~calls[Len(calls)].raised
                            THEN f.korean_word1 =
                                   (IF calls[Len(calls)].text # <<>>
                                    THEN calls[Len(calls)].text ELSE word)
                            ELSE Len(calls) = 3 /\ f.korean_word1 = word

\* Two attempts failed and the third answered the empty text.
C3_Witness ==
    /\ req # NoReq
    /\ req[1].entry = "translate_to_korean" /\ req[1].pc = "done"
    /\ Len(CallsOf(req[1], 1)) = 3
    /\ ~CallsOf(req[1], 1)[3].raised
    /\ CallsOf(req[1], 1)[3].text = <<>>
    /\ req[1].korean_word1 = <<223>>

\* C4: a request that passes validation ends with a success response that
\* carries all six fields, whatever each translation attempt did; a word
\* whose attempts all failed is reported as the trimmed word itself.
C4_Answered ==
    (req[1].pc = "done" /\ ~Invalid(req[1].data)) =>
        /\ req[1].status = 200
        /\ DOMAIN req[1].response = ResponseFields
        /\ \A x \in ResponseFields : req[1].response[x] # None
        /\ AllFailed(req[1], 1) =>
              req[1].response.korean_word1 = Trimmed(req[1].data.word1)
        /\ AllFailed(req[1], 2) =>
              req[1].response.korean_word2 = Trimmed(req[1].data.word2)

\* C4, with its progress: the check above holds in every state, and every
\* request that passes validation eventually ends with status 200.
C4_ValidRequestSucceeds ==
    /\ [](C4_Answered)
    /\ (req[1].pc = "validate" /\ ~Invalid(req[1].data))
          ~> (req[1].pc = "done" /\ req[1].status = 200)

\* All six attempts failed and the request was answered all the same.
C4_Witness ==
    /\ req # NoReq
    /\ req[1].status = 200
    /\ AllFailed(req[1], 1) /\ AllFailed(req[1], 2)
    /\ req[1].response.korean_word1 = <<97>>
    /\ req[1].response.korean_word2 = <<223>>

\* C5: in a success response each keyboard word is the transliteration of
\* its Korean word without its spaces, and the raw password is keyboard
\* word 1, the trimmed symbol, keyboard word 2, and nothing else.
C5_Assembly ==
    \A r \in DOMAIN req :
        req[r].status = 200 =>
            LET b == req[r].response
            IN  /\ b.keyboard_word1 = WithoutSpaces(
                      korean_to_keyboard_typing(JAMO_TO_KEYBOARD, b.korean_word1))
                /\ b.keyboard_word2 = WithoutSpaces(
                      korean_to_keyboard_typing(JAMO_TO_KEYBOARD, b.korean_word2))
                /\ 32 \notin Range(b.keyboard_word1)
                /\ 32 \notin Range(b.keyboard_word2)
                /\ b.raw_password = b.keyboard_word1
                      \o Trimmed(req[r].data.symbol) \o b.keyboard_word2

\* A translation of two words, and a symbol sent with surrounding spaces.
C5_Witness ==
    /\ req # NoReq
    /\ req[1].status = 200
    /\ req[1].response.korean_word1 = <<45805, 32, 44284>>
    /\ req[1].response.korean_word2 = <<51665>>
    /\ req[1].data.symbol = <<32, 33, 32>>
    /\ req[1].response.raw_password =
          <<101, 107, 12602, 114, 104, 107, 33, 119, 108, 113>>

\* The pieces the claim C6 gives: the keys of a composed syllable, any other
\* character itself.
ClaimPiece(c) ==
    IF FIRST_HANGUL_UNICODE <= c /\ c <= LAST_HANGUL_UNICODE
    THEN LET off == c - FIRST_HANGUL_UNICODE
             ci  == off \div (NUM_JOONG * NUM_JONG)
             mi  == (off \div NUM_JONG) % NUM_JOONG
             fi  == off % NUM_JONG
         IN  get(JAMO_TO_KEYBOARD, Str(CHO[ci + 1]))
             \o get(JAMO_TO_KEYBOARD, Str(JOONG[mi + 1]))
             \o (IF fi # 0 THEN get(JAMO_TO_KEYBOARD, Str(JONG[fi + 1]))
                 ELSE <<>>)
    ELSE <<c>>

RECURSIVE ClaimTyping(_)
ClaimTyping(s) ==
    IF s = <<>> THEN <<>> ELSE ClaimPiece(Head(s)) \o ClaimTyping(Tail(s))

\* C6: korean_to_keyboard_typing returns, in input order, one piece per
\* character: lookup(initial), lookup(medial) and, if present,
\* lookup(final) for a composed Hangul syllable, and the character itself
\* for every character that is not a composed Hangul syllable.
C6_PiecePerCharacter ==
    (call.fn = "korean_to_keyboard_typing" /\ call.done) =>
        call.ret = ClaimTyping(call.arg)

Pos(tbl, s) == CHOOSE i \in 1..Len(tbl) : Str(tbl[i]) = s

compose(ci, mi, fi) ==
    FIRST_HANGUL_UNICODE + (ci * NUM_JOONG + mi) * NUM_JONG + fi

\* C7: for each of the 11,172 composed syllables, decomposition gives an
\* initial jamo (index 0-18), a medial jamo (index 0-20) and a final jamo
\* exactly when the syllable has a trailing consonant (index 1-27), and
\* composing the three indices gives the syllable back.
C7_RoundTrip ==
    (/\ call.fn = "decompose" /\ call.done
     /\ call.arg[1] \in SyllableBlock) =>
        LET d == call.dec
            c == call.arg[1]
        IN  /\ Len(d) = 3
            /\ d[1] # <<>> /\ \E i \in 1..19 : Str(CHO[i]) = d[1]
            /\ d[2] # <<>> /\ \E i \in 1..21 : Str(JOONG[i]) = d[2]
            /\ \E i \in 1..28 : Str(JONG[i]) = d[3]
            /\ (d[3] # <<>>) <=> ((c - FIRST_HANGUL_UNICODE) % 28 # 0)
            /\ (d[3] # <<>>) => Pos(JONG, d[3]) - 1 \in 1..27
            /\ compose(Pos(CHO, d[1]) - 1, Pos(JOONG, d[2]) - 1,
                       Pos(JONG, d[3]) - 1) = c

\* U+C9D1 decomposed into U+3148, U+3163, U+3142; and the block has 11,172
\* code points.
C7_Witness ==
    /\ call.fn = "decompose" /\ call.done
    /\ call.arg = <<51665>>
    /\ call.dec = << <<12616>>, <<12643>>, <<12610>> >>
    /\ Cardinality(SyllableBlock) = 11172

\* C8: the transliteration of a composed Hangul syllable consists of Latin
\* letters only, at least 2 of them: every initial, medial and final jamo
\* is mapped to its keys.
C8_SyllableAllLatin ==
    (/\ call.fn = "korean_to_keyboard_typing" /\ call.done
     /\ Len(call.arg) = 1 /\ call.arg[1] \in SyllableBlock) =>
        /\ Len(call.ret) >= 2
        /\ \A i \in 1..Len(call.ret) : IsLatinLetter(call.ret[i])

Rank(e) ==
    IF e.ev \in {"call", "sleep"} THEN e.k
    ELSE IF e.ev = "typing" THEN 3
    ELSE IF e.ev = "build" THEN 4
    ELSE 5

\* The retry loop of word k has run to its end.
LoopComplete(f, k) ==
    /\ Len(CallsOf(f, k)) >= 1
    /\ \/ ~CallsOf(f, k)[Len(CallsOf(f, k))].raised
       \/ AllFailed(f, k) /\ Len(SleepsOf(f, k)) = 3

\* C9: a valid request runs all attempts for word1, then all attempts for
\* word2, then the transliteration, the assembly and the response; no
\* attempt for word2 starts before the translation of word1 has returned,
\* each retry loop ends before the handler goes on, and the request makes
\* 2 to 6 external calls and at most 6 delays.
C9_StepOrder ==
    \A r \in DOMAIN req :
        LET f   == req[r]
            log == f.log
            n   == Len(log)
        IN  f.entry = "generate" =>
              /\ \A i, j \in 1..n : i < j => Rank(log[i]) <= Rank(log[j])
              /\ \A i \in 1..n :
                    Rank(log[i]) >= 2 =>
                        LoopComplete(f, 1) /\ f.korean_word1 # None
              /\ \A i \in 1..n :
                    Rank(log[i]) >= 3 =>
                        LoopComplete(f, 2) /\ f.korean_word2 # None
              /\ Len(CallsOf(f, 1)) + Len(CallsOf(f, 2)) <= 6
              /\ Len(SleepsOf(f, 1)) + Len(SleepsOf(f, 2)) <= 6
              /\ f.status = 200 =>
                    /\ Len(CallsOf(f, 1)) + Len(CallsOf(f, 2)) >= 2
                    /\ n >= 5
                    /\ log[n].ev = "respond"
                    /\ log[n - 1].ev = "build"
                    /\ log[n - 2].ev = "typing"
                    /\ Rank(log[n - 3]) = 2

\* The longest run: six calls, six delays, then the response.
C9_Witness ==
    /\ req # NoReq
    /\ req[1].status = 200
    /\ Len(CallsOf(req[1], 1)) = 3 /\ Len(CallsOf(req[1], 2)) = 3
    /\ Len(SleepsOf(req[1], 1)) + Len(SleepsOf(req[1], 2)) = 6

\* What request f answers when it runs alone with the same inputs, the same
\* translation outcomes and the same random index.
KoreanAlone(f, k, word) ==
    LET calls == CallsOf(f, k)
    IN  IF calls # <<>> /\ ~calls[Len(calls)].raised
           /\ calls[Len(calls)].text # <<>>
        THEN calls[Len(calls)].text
        ELSE word

ResponseAlone(f) ==
    LET k1  == KoreanAlone(f, 1, strip(f.data.word1))
        k2  == KoreanAlone(f, 2, strip(f.data.word2))
        kb1 == replace_space(korean_to_keyboard_typing(JAMO_TO_KEYBOARD, k1))
        kb2 == replace_space(korean_to_keyboard_typing(JAMO_TO_KEYBOARD, k2))
        raw == kb1 \o strip(f.data.symbol) \o kb2
    IN  [korean_word1 |-> k1, korean_word2 |-> k2,
         keyboard_word1 |-> kb1, keyboard_word2 |-> kb2,
         raw_password |-> raw,
         final_password |-> IF f.choice = 0 THEN raw
                            ELSE capitalize_at(raw, f.choice)]

\* C10: under any interleaving of concurrent requests the shared table and
\* the shared translator handle are never written, and each response is the
\* one its request would get alone from its own inputs, its own translation
\* outcomes and its own random index.
C10_Isolation ==
    /\ jamo_table = JAMO_TO_KEYBOARD
    /\ translator = "Translator"
    /\ \A r \in DOMAIN req :
          req[r].status = 200 =>
              /\ req[r].response = ResponseAlone(req[r])
              /\ req[r].choice \in idxs(req[r].response.raw_password) \cup {0}
              /\ req[r].choice = 0 =>
                    idxs(req[r].response.raw_password) = {}

\* Request 2 was answered with a translation while request 1, whose first
\* word fell back, sleeps between two attempts for its second word.
C10_Witness ==
    /\ req # NoReq /\ Len(req) >= 2
    /\ req[2].status = 200
    /\ req[2].response.korean_word1 = <<50>>
    /\ req[2].response.final_password = <<50, 33, 49>>
    /\ req[1].pc = "translate2" /\ req[1].tr.sleeping
    /\ req[1].korean_word1 = <<97>>

===========================================================================
